---- MODULE Spec2Model ----
(***************************************************************************)
(* A model of metlinkpid: the Page / Message codecs, the CRC and framing   *)
(* helpers, inspect(), and the PID.send request/acknowledge exchange over  *)
(* a serial transport.                                                     *)
(*                                                                         *)
(* Text is a sequence of Unicode code points, bytes are sequences of       *)
(* 0..255.  A function that can raise returns [err, val]: err is "none"    *)
(* or the name of the exception class the code raises.                     *)
(***************************************************************************)
EXTENDS Integers, Sequences, FiniteSets, TLC

\* ------------------------------------------------------------------ bounds
\* longest page text drawn as an input
MaxTextLen == 3
\* most pages in a DisplayMessage drawn as an input
MaxPages == 2
\* longest text of a page string drawn as an input
MaxStrTextLen == 1
\* most conversions applied in a row to one input
MaxOps == 2
\* most send calls in one behaviour
MaxCalls == 2
\* longest raw byte buffer
MaxRawLen == 3
\* most operations applied in a row to one byte buffer
MaxSteps == 3
\* most text bytes of a page buffer
MaxPageTextBytes == 2
\* close() calls on one connection
MaxCloses == 2

\* ------------------------------------------------------- generic helpers
Ok(v) == [err |-> "none", val |-> v]
Raise(e) == [err |-> e, val |-> <<>>]

Min(a, b) == IF a < b THEN a ELSE b

\* s[i:] of Python, i counted from 0
Drop(s, i) == SubSeq(s, i + 1, Len(s))

\* s[:i] of Python
Take(s, i) == SubSeq(s, 1, Min(i, Len(s)))

RECURSIVE Concat(_)
Concat(ss) == IF ss = <<>> THEN <<>> ELSE Head(ss) \o Concat(Tail(ss))

\* sep.join(ss)
RECURSIVE Join(_, _)
Join(ss, sep) ==
    IF ss = <<>> THEN <<>>
    ELSE IF Len(ss) = 1 THEN ss[1]
    ELSE ss[1] \o sep \o Join(Tail(ss), sep)

\* s.split(c) for a one-element separator c: always at least one piece
RECURSIVE Split(_, _)
Split(s, c) ==
    IF \A i \in 1..Len(s) : s[i] # c THEN <<s>>
    ELSE LET k == CHOOSE i \in 1..Len(s) : s[i] = c /\ \A j \in 1..(i - 1) : s[j] # c
         IN <<SubSeq(s, 1, k - 1)>> \o Split(Drop(s, k), c)

\* number of leading c in s: len(s) - len(s.lstrip(c))
RECURSIVE LeadCount(_, _)
LeadCount(s, c) ==
    IF s # <<>> /\ Head(s) = c THEN 1 + LeadCount(Tail(s), c) ELSE 0

\* s.rstrip(c)
RECURSIVE RStrip(_, _)
RStrip(s, c) ==
    IF s # <<>> /\ s[Len(s)] = c THEN RStrip(SubSeq(s, 1, Len(s) - 1), c) ELSE s

StartsWith(s, p) == Len(s) >= Len(p) /\ SubSeq(s, 1, Len(p)) = p

\* str(n) for an int n, as code points
RECURSIVE DecStr(_)
DecStr(n) ==
    IF n < 0 THEN <<45>> \o DecStr(0 - n)
    ELSE IF n < 10 THEN <<48 + n>>
    ELSE DecStr(n \div 10) \o <<48 + (n % 10)>>

\* The characters \d matches in a str pattern are the decimal digits of
\* Unicode (category Nd); they come in runs of ten, and these are the code
\* points of the zero of each run (ASCII, Arabic-Indic, ..., fullwidth, ...).
DigitZeros ==
    { 48, 1632, 1776, 1984, 2406, 2534, 2662, 2790, 2918, 3046, 3174, 3302, 3430,
      3558, 3664, 3792, 3872, 4160, 4240, 6112, 6160, 6470, 6608, 6784, 6800, 6992,
      7088, 7232, 7248, 42528, 43216, 43264, 43472, 43504, 43600, 44016, 65296,
      66720, 68912, 69734, 69872, 69942, 70096, 70384, 70736, 70864, 71248, 71360,
      71472, 71904, 72016, 72784, 73040, 73120, 92768, 92864, 93008, 120782, 120792,
      120802, 120812, 120822, 123200, 123632, 125264, 130032 }

IsDigit(c) == \E z \in DigitZeros : c \in z..(z + 9)

\* the value int() gives a decimal digit
DigitValue(c) == c - (CHOOSE z \in DigitZeros : c \in z..(z + 9))

\* int(digits) for a non-empty sequence of decimal digits
RECURSIVE ParseInt(_)
ParseInt(ds) ==
    IF ds = <<>> THEN 0
    ELSE 10 * ParseInt(SubSeq(ds, 1, Len(ds) - 1)) + DigitValue(ds[Len(ds)])

IsLetter(c) == c \in (65..90) \cup (97..122)
Upper(c) == IF c \in 97..122 THEN c - 32 ELSE c

\* ------------------------------------------------------------ PageAnimate
\* The enum's values are its one-letter strings, kept here as code points.
PageAnimate_NONE == 78
PageAnimate_VSCROLL == 86
PageAnimate_HSCROLL == 72
PageAnimateValues == {PageAnimate_NONE, PageAnimate_VSCROLL, PageAnimate_HSCROLL}

\* PageAnimate(letter): the member with that value, or ValueError
PageAnimate(c) == IF c \in PageAnimateValues THEN Ok(c) ELSE Raise("ValueError")

\* ------------------------------------------------------------------- Page
\* Page._TEXT_ENCODING: the permitted ASCII characters encode as themselves,
\* six other characters have a byte of their own.
AsciiAllowed ==
    {32, 33, 35, 36, 38, 39} \cup (40..63) \cup (65..90) \cup {92} \cup (97..122)

ExtraEncoding ==
    { <<183, 143>>, <<8226, 211>>, <<9472, 151>>, <<9473, 210>>, <<9608, 95>>, <<9620, 163>> }

TEXT_ENCODING_KEYS == AsciiAllowed \cup { e[1] : e \in ExtraEncoding }

TEXT_ENCODING(c) ==
    IF c \in AsciiAllowed THEN c ELSE (CHOOSE e \in ExtraEncoding : e[1] = c)[2]

\* Page._TEXT_DECODING: the inverse of the encoding plus four more bytes.
ExtraDecoding == { <<34, 39>>, <<152, 9472>>, <<164, 9620>>, <<165, 9620>> }

TEXT_DECODING_KEYS ==
    { TEXT_ENCODING(c) : c \in TEXT_ENCODING_KEYS } \cup { e[1] : e \in ExtraDecoding }

TEXT_DECODING(b) ==
    IF \E e \in ExtraDecoding : e[1] = b
    THEN (CHOOSE e \in ExtraDecoding : e[1] = b)[2]
    ELSE CHOOSE c \in TEXT_ENCODING_KEYS : TEXT_ENCODING(c) = b

REPLACEMENT_CHARACTER == 65533
ATTRS_SEP == 94
RIGHT_CHAR_DECODED == 126
RIGHT_CHAR_ENCODED == <<92, 82>>
NEWLINE_CHAR == 95
NEWLINE_BYTESEQ == 10
PAGE_SEP == 124

\* Page._ANIMATE_ENCODING and its inverse
ANIMATE_ENCODING(a) ==
    IF a = PageAnimate_NONE THEN 0 ELSE IF a = PageAnimate_VSCROLL THEN 29 ELSE 47

ANIMATE_DECODING_KEYS == { ANIMATE_ENCODING(a) : a \in PageAnimateValues }

ANIMATE_DECODING(b) == CHOOSE a \in PageAnimateValues : ANIMATE_ENCODING(a) = b

Page(animate, delay, text) == [animate |-> animate, delay |-> delay, text |-> text]

\* text.replace('~', '\\R')
RECURSIVE EscapeRight(_)
EscapeRight(t) ==
    IF t = <<>> THEN <<>>
    ELSE IF Head(t) = RIGHT_CHAR_DECODED THEN RIGHT_CHAR_ENCODED \o EscapeRight(Tail(t))
    ELSE <<Head(t)>> \o EscapeRight(Tail(t))

\* mutant of UnescapeRight: the escape sequence is left in the decoded text
UnescapeRight_Skipped(t) == t

\* text.replace('\\R', '~'): left to right, occurrences do not overlap
RECURSIVE UnescapeRight(_)
UnescapeRight(t) ==
    IF t = <<>> THEN <<>>
    ELSE IF StartsWith(t, RIGHT_CHAR_ENCODED)
         THEN <<RIGHT_CHAR_DECODED>> \o UnescapeRight(Drop(t, 2))
    ELSE <<Head(t)>> \o UnescapeRight(Tail(t))

\* Page._encode_text: ValueError when any character has no encoding
_encode_text(text) ==
    IF \E i \in 1..Len(text) : text[i] \notin TEXT_ENCODING_KEYS
    THEN Raise("ValueError")
    ELSE Ok([i \in 1..Len(text) |-> TEXT_ENCODING(text[i])])

\* the set of characters the ValueError of _encode_text names
bad_chars(text) == { text[i] : i \in { j \in 1..Len(text) : text[j] \notin TEXT_ENCODING_KEYS } }

\* Page._decode_text: a byte with no character becomes U+FFFD
_decode_text(bytes_in) ==
    [i \in 1..Len(bytes_in) |->
        IF bytes_in[i] \in TEXT_DECODING_KEYS THEN TEXT_DECODING(bytes_in[i])
        ELSE REPLACEMENT_CHARACTER]

\* mutant of Page_str: the letter of PageAnimate.NONE, the default of
\* Page.from_str, is left out
Page_str_OmitsNone(p) ==
    (IF p.animate = PageAnimate_NONE THEN <<>> ELSE <<p.animate>>)
    \o DecStr(p.delay) \o <<ATTRS_SEP>> \o p.text

\* Page.__str__
Page_str(p) == <<p.animate>> \o DecStr(p.delay) \o <<ATTRS_SEP>> \o p.text

\* Page._STR_RE: the length of the "<animate><delay>^" prefix the optional
\* group matches (0 when the group does not take part in the match).
StrRePrefix(string) ==
    LET a == IF string # <<>> /\ IsLetter(string[1]) THEN 1 ELSE 0
        rest == Drop(string, a)
        RECURSIVE Digits(_)
        Digits(s) == IF s # <<>> /\ IsDigit(Head(s)) THEN 1 + Digits(Tail(s)) ELSE 0
        d == Digits(rest)
    IN IF Len(string) > a + d /\ string[a + d + 1] = ATTRS_SEP
       THEN [animate |-> Take(string, a), delay |-> SubSeq(string, a + 1, a + d),
             text |-> Drop(string, a + d + 1), matched |-> TRUE]
       ELSE [animate |-> <<>>, delay |-> <<>>, text |-> string, matched |-> FALSE]

\* mutant of Page_from_str: the parsed delay is tested for truth, so a delay
\* of 0 takes the default
Page_from_str_ZeroIsDefault(string, default_animate, default_delay) ==
    LET match == StrRePrefix(string)
        animate == IF match.animate # <<>>
                   THEN PageAnimate(Upper(match.animate[1]))
                   ELSE Ok(default_animate)
        delay == IF match.delay # <<>> /\ ParseInt(match.delay) # 0
                 THEN ParseInt(match.delay) ELSE default_delay
    IN IF animate.err # "none" THEN Raise(animate.err)
       ELSE Ok(Page(animate.val, delay, match.text))

\* Page.from_str
Page_from_str(string, default_animate, default_delay) ==
    LET match == StrRePrefix(string)
        animate == IF match.animate # <<>>
                   THEN PageAnimate(Upper(match.animate[1]))
                   ELSE Ok(default_animate)
        delay == IF match.delay # <<>> THEN ParseInt(match.delay) ELSE default_delay
    IN IF animate.err # "none" THEN Raise(animate.err)
       ELSE Ok(Page(animate.val, delay, match.text))

\* Page.to_bytes
Page_to_bytes(p) ==
    LET offset == LeadCount(p.text, NEWLINE_CHAR)
        lines == Split(Drop(p.text, offset), NEWLINE_CHAR)
        enc == [i \in 1..Len(lines) |-> _encode_text(EscapeRight(lines[i]))]
    IN IF offset > 255 \/ p.delay \notin 0..255 THEN Raise("ValueError")
       ELSE IF \E i \in 1..Len(lines) : enc[i].err # "none" THEN Raise("ValueError")
       ELSE Ok(<<ANIMATE_ENCODING(p.animate), offset, p.delay, 0>>
               \o Join([i \in 1..Len(lines) |-> enc[i].val], <<NEWLINE_BYTESEQ>>))

\* mutant of Page_to_bytes_listed: the offending characters of every line are named
Page_to_bytes_listed_AllLines(p) ==
    LET offset == LeadCount(p.text, NEWLINE_CHAR)
        lines == Split(Drop(p.text, offset), NEWLINE_CHAR)
    IN IF offset > 255 \/ p.delay \notin 0..255 THEN {}
       ELSE UNION { bad_chars(EscapeRight(lines[i])) : i \in 1..Len(lines) }

\* The characters named by the ValueError of Page.to_bytes: the lines are
\* encoded one after the other, and the first line _encode_text rejects raises
\* with its own bad_chars; an offset or delay that is no byte raises before
\* any text is encoded and names no character.
Page_to_bytes_listed(p) ==
    LET offset == LeadCount(p.text, NEWLINE_CHAR)
        lines == Split(Drop(p.text, offset), NEWLINE_CHAR)
        failing == { i \in 1..Len(lines) : _encode_text(EscapeRight(lines[i])).err # "none" }
    IN IF offset > 255 \/ p.delay \notin 0..255 \/ failing = {} THEN {}
       ELSE bad_chars(EscapeRight(lines[CHOOSE i \in failing : \A j \in failing : i <= j]))

\* mutant of Page_from_bytes: byte 3 of the header is not looked at
Page_from_bytes_IgnoresByte3(bytes_in) ==
    IF Len(bytes_in) < 4 THEN Raise("ValueError")
    ELSE IF bytes_in[1] \notin ANIMATE_DECODING_KEYS THEN Raise("NotImplementedError")
    ELSE LET offset == bytes_in[2]
             lines == Split(RStrip(Drop(bytes_in, 4), NEWLINE_BYTESEQ), NEWLINE_BYTESEQ)
             text == Join([i \in 1..Len(lines) |->
                              UnescapeRight(RStrip(_decode_text(lines[i]), 32))],
                          <<NEWLINE_CHAR>>)
         IN Ok(Page(ANIMATE_DECODING(bytes_in[1]), bytes_in[3],
                    [i \in 1..offset |-> NEWLINE_CHAR] \o text))

\* Page.from_bytes
Page_from_bytes(bytes_in) ==
    IF Len(bytes_in) < 4 THEN Raise("ValueError")
    ELSE IF bytes_in[1] \notin ANIMATE_DECODING_KEYS THEN Raise("NotImplementedError")
    ELSE IF bytes_in[4] # 0 THEN Raise("NotImplementedError")
    ELSE LET offset == bytes_in[2]
             lines == Split(RStrip(Drop(bytes_in, 4), NEWLINE_BYTESEQ), NEWLINE_BYTESEQ)
             text == Join([i \in 1..Len(lines) |->
                              UnescapeRight(RStrip(_decode_text(lines[i]), 32))],
                          <<NEWLINE_CHAR>>)
         IN Ok(Page(ANIMATE_DECODING(bytes_in[1]), bytes_in[3],
                    [i \in 1..offset |-> NEWLINE_CHAR] \o text))

\* --------------------------------------------------------------- Messages
PingMessage(b) == [kind |-> "PingMessage", unspecified_byte |-> b]
ResponseMessage(b) == [kind |-> "ResponseMessage", unspecified_byte |-> b]
DisplayMessage(pages) == [kind |-> "DisplayMessage", pages |-> pages]

\* mutant of PingMessage_marker: a marker that begins the other two
PingMessage_marker_Short == <<1>>

PingMessage_marker == <<1, 80>>
ResponseMessage_marker == <<1, 82>>
DisplayMessage_marker == <<1, 68, 0>>

\* PingMessage.from_bytes
PingMessage_from_bytes(bytes_in) ==
    IF ~StartsWith(bytes_in, PingMessage_marker) THEN Raise("ValueError")
    ELSE IF Len(bytes_in) < 3 THEN Raise("ValueError")
    ELSE IF Len(bytes_in) > 3 THEN Raise("ValueError")
    ELSE Ok(PingMessage(bytes_in[3]))

\* PingMessage.to_bytes
PingMessage_to_bytes(m) ==
    IF m.unspecified_byte \notin 0..255 THEN Raise("ValueError")
    ELSE Ok(PingMessage_marker \o <<m.unspecified_byte>>)

\* ResponseMessage.from_bytes
ResponseMessage_from_bytes(bytes_in) ==
    IF ~StartsWith(bytes_in, ResponseMessage_marker) THEN Raise("ValueError")
    ELSE IF Len(bytes_in) < 4 THEN Raise("ValueError")
    ELSE IF Len(bytes_in) > 4 THEN Raise("ValueError")
    ELSE IF bytes_in[4] # 0 THEN Raise("ValueError")
    ELSE Ok(ResponseMessage(bytes_in[3]))

\* ResponseMessage.to_bytes
ResponseMessage_to_bytes(m) ==
    IF m.unspecified_byte \notin 0..255 THEN Raise("ValueError")
    ELSE Ok(ResponseMessage_marker \o <<m.unspecified_byte, 0>>)

\* DisplayMessage.from_str
DisplayMessage_from_str(string) ==
    LET strs == Split(string, PAGE_SEP)
        parsed == [i \in 1..Len(strs) |->
                      Page_from_str(strs[i],
                                    IF i = 1 THEN PageAnimate_VSCROLL ELSE PageAnimate_HSCROLL,
                                    IF i = 1 THEN 40 ELSE 0)]
    IN IF \E i \in 1..Len(strs) : parsed[i].err # "none" THEN Raise("ValueError")
       ELSE Ok(DisplayMessage([i \in 1..Len(strs) |-> parsed[i].val]))

\* DisplayMessage.__str__
DisplayMessage_str(m) == Join([i \in 1..Len(m.pages) |-> Page_str(m.pages[i])], <<PAGE_SEP>>)

\* DisplayMessage.to_bytes
DisplayMessage_to_bytes(m) ==
    LET enc == [i \in 1..Len(m.pages) |-> Page_to_bytes(m.pages[i])]
    IN IF \E i \in 1..Len(m.pages) : enc[i].err # "none" THEN Raise("ValueError")
       ELSE Ok(DisplayMessage_marker
               \o Join([i \in 1..Len(m.pages) |-> enc[i].val], <<13, 1>>) \o <<13>>)

\* mutant of DisplayMessage_pages: a byte other than 0x01 after a page-ending
\* 0x0D is reported as NotImplementedError
RECURSIVE DisplayMessage_pages_UnsupportedBoundary(_, _, _)
DisplayMessage_pages_UnsupportedBoundary(bytes_in, index, pages) ==
    IF pages # <<>> /\ bytes_in[index + 1] # 1 THEN Raise("NotImplementedError")
    ELSE LET start == IF pages # <<>> THEN index + 1 ELSE index
             ends == { e \in start..(Len(bytes_in) - 1) : bytes_in[e + 1] = 13 }
         IN IF ends = {} THEN Raise("ValueError")
            ELSE LET end == CHOOSE e \in ends : \A f \in ends : e <= f
                     page == Page_from_bytes(SubSeq(bytes_in, start + 1, end))
                 IN IF page.err # "none" THEN Raise(page.err)
                    ELSE IF end + 1 = Len(bytes_in) THEN Ok(pages \o <<page.val>>)
                    ELSE DisplayMessage_pages_UnsupportedBoundary(
                             bytes_in, end + 1, pages \o <<page.val>>)

\* The loop of DisplayMessage.from_bytes, from position index (0-based) with
\* the pages decoded so far.
RECURSIVE DisplayMessage_pages(_, _, _)
DisplayMessage_pages(bytes_in, index, pages) ==
    IF pages # <<>> /\ bytes_in[index + 1] # 1 THEN Raise("ValueError")
    ELSE LET start == IF pages # <<>> THEN index + 1 ELSE index
             ends == { e \in start..(Len(bytes_in) - 1) : bytes_in[e + 1] = 13 }
         IN IF ends = {} THEN Raise("ValueError")
            ELSE LET end == CHOOSE e \in ends : \A f \in ends : e <= f
                     page == Page_from_bytes(SubSeq(bytes_in, start + 1, end))
                 IN IF page.err # "none" THEN Raise(page.err)
                    ELSE IF end + 1 = Len(bytes_in) THEN Ok(pages \o <<page.val>>)
                    ELSE DisplayMessage_pages(bytes_in, end + 1, pages \o <<page.val>>)

\* DisplayMessage.from_bytes
DisplayMessage_from_bytes(bytes_in) ==
    IF ~StartsWith(bytes_in, DisplayMessage_marker) THEN Raise("ValueError")
    ELSE LET pages == DisplayMessage_pages(bytes_in, Len(DisplayMessage_marker), <<>>)
         IN IF pages.err # "none" THEN Raise(pages.err) ELSE Ok(DisplayMessage(pages.val))

\* Message.to_bytes, by class
Message_to_bytes(m) ==
    IF m.kind = "PingMessage" THEN PingMessage_to_bytes(m)
    ELSE IF m.kind = "ResponseMessage" THEN ResponseMessage_to_bytes(m)
    ELSE DisplayMessage_to_bytes(m)

\* ------------------------------------------------------------------ CRC
\* c with the bit of weight w inverted (w a power of two)
FlipBit(c, w) == IF (c \div w) % 2 = 1 THEN c - w ELSE c + w

\* c xor 0x8408: the polynomial 0x1021, reflected
CrcPoly(c) == FlipBit(FlipBit(FlipBit(c, 32768), 1024), 8)

\* one input bit into the 16-bit register c of the reflected CRC-16
CrcShift(c, bit) == IF c % 2 # bit THEN CrcPoly(c \div 2) ELSE c \div 2

\* the n low bits of the byte b into the register, lowest bit first
RECURSIVE CrcByte(_, _, _)
CrcByte(c, b, n) ==
    IF n = 0 \/ c \notin 0..65535 THEN c
    ELSE CrcByte(CrcShift(c, b % 2), b \div 2, n - 1)

\* the 16-bit register c after the bytes of bytes_in
RECURSIVE CrcFold(_, _)
CrcFold(c, bytes_in) ==
    IF bytes_in = <<>> \/ c \notin 0..65535 THEN c
    ELSE CrcFold(CrcByte(c, Head(bytes_in), 8), Tail(bytes_in))

\* CrcX25.calc: initial value 0xFFFF, final xor 0xFFFF
CrcX25_calc(bytes_in) == 65535 - CrcFold(65535, bytes_in)

\* _crc: struct.pack('<H', ...)
_crc(bytes_in) == LET c == CrcX25_calc(bytes_in) IN <<c % 256, c \div 256>>

\* mutant of _uncrc: the buffer is returned with its tag still on
_uncrc_KeepsTag(bytes_in) ==
    IF Len(bytes_in) < 2 THEN Raise("ValueError")
    ELSE LET bytes_out == SubSeq(bytes_in, 1, Len(bytes_in) - 2)
             crc_in == SubSeq(bytes_in, Len(bytes_in) - 1, Len(bytes_in))
         IN IF crc_in # _crc(bytes_out) THEN Raise("ValueError") ELSE Ok(bytes_in)

\* mutant of _uncrc: only the low byte of the tag is compared
_uncrc_ChecksLowByte(bytes_in) ==
    IF Len(bytes_in) < 2 THEN Raise("ValueError")
    ELSE LET bytes_out == SubSeq(bytes_in, 1, Len(bytes_in) - 2)
             crc_in == SubSeq(bytes_in, Len(bytes_in) - 1, Len(bytes_in))
         IN IF crc_in[1] # _crc(bytes_out)[1] THEN Raise("ValueError") ELSE Ok(bytes_out)

\* _uncrc
_uncrc(bytes_in) ==
    IF Len(bytes_in) < 2 THEN Raise("ValueError")
    ELSE LET bytes_out == SubSeq(bytes_in, 1, Len(bytes_in) - 2)
             crc_in == SubSeq(bytes_in, Len(bytes_in) - 1, Len(bytes_in))
         IN IF crc_in # _crc(bytes_out) THEN Raise("ValueError") ELSE Ok(bytes_out)

\* ------------------------------------------------------------- dlestxetx
DLE == 16
STX == 2
ETX == 3

\* mutant of Stuff: a DLE of the payload is not doubled
Stuff_NoDoubling(data) == data

\* dlestxetx.encode: DLE STX, the data with every DLE doubled, DLE ETX
RECURSIVE Stuff(_)
Stuff(data) ==
    IF data = <<>> THEN <<>>
    ELSE IF Head(data) = DLE THEN <<DLE, DLE>> \o Stuff(Tail(data))
    ELSE <<Head(data)>> \o Stuff(Tail(data))

dlestxetx_encode(data) == <<DLE, STX>> \o Stuff(data) \o <<DLE, ETX>>

\* The body of a packet from position i (1-based) of data: the payload and the
\* position after DLE ETX; "short" when data ends first, "bad" on a DLE that is
\* followed by neither DLE nor ETX.
RECURSIVE Unstuff(_, _, _)
Unstuff(data, i, out) ==
    IF i > Len(data) THEN [val |-> out, st |-> "short", next |-> i]
    ELSE IF data[i] # DLE THEN Unstuff(data, i + 1, out \o <<data[i]>>)
    ELSE IF i + 1 > Len(data) THEN [val |-> out, st |-> "short", next |-> i + 1]
    ELSE IF data[i + 1] = DLE THEN Unstuff(data, i + 2, out \o <<DLE>>)
    ELSE IF data[i + 1] = ETX THEN [val |-> out, st |-> "done", next |-> i + 2]
    ELSE [val |-> out, st |-> "bad", next |-> i + 2]

\* dlestxetx.decode: the payload of exactly one packet, else ValueError
dlestxetx_decode(data) ==
    IF ~StartsWith(data, <<DLE, STX>>) THEN Raise("ValueError")
    ELSE LET r == Unstuff(data, 3, <<>>)
         IN IF r.st = "done" /\ r.next = Len(data) + 1 THEN Ok(r.val)
            ELSE Raise("ValueError")

\* ---------------------------------------------------------------- inspect
\* Message.__subclasses__(), in definition order, tried by marker
inspect(bytes_in) ==
    LET framed == dlestxetx_decode(bytes_in)
        was_framed == framed.err = "none"
        checked == IF was_framed THEN _uncrc(framed.val) ELSE Ok(bytes_in)
    IN IF checked.err # "none" THEN Raise(checked.err)
       ELSE IF StartsWith(checked.val, PingMessage_marker)
            THEN PingMessage_from_bytes(checked.val)
       ELSE IF StartsWith(checked.val, ResponseMessage_marker)
            THEN ResponseMessage_from_bytes(checked.val)
       ELSE IF StartsWith(checked.val, DisplayMessage_marker)
            THEN DisplayMessage_from_bytes(checked.val)
       ELSE Raise("ValueError")

\* ----------------------------------------------------------------- inputs
\* Sequences over S of length 0..n
SeqsUpTo(S, n) == UNION { [1..k -> S] : k \in 0..n }

\* 'A', ' ', '_', '~', '\', 'R'
TextChars == {65, 32, 95, 126, 92, 82}
DelaySamples == {0, 13, 40, 255}
ByteSamples == {0, 13, 16, 111, 255}

InputPages ==
    { Page(a, d, t) : a \in PageAnimateValues, d \in DelaySamples,
                      t \in SeqsUpTo(TextChars, MaxTextLen) }
    \cup { Page(PageAnimate_NONE, 20, <<c>>) : c \in TEXT_ENCODING_KEYS }

\* pages whose text holds '@' or '%', which have no encoding, next to 'A' and
\* line breaks; with a delay that is a byte and one that is not
UnencodableChars == {64, 37}
UnencodablePages ==
    { Page(PageAnimate_NONE, d, t) :
        d \in {20, 256},
        t \in { u \in SeqsUpTo(UnencodableChars \cup {65, NEWLINE_CHAR}, MaxTextLen) :
                  \E i \in 1..Len(u) : u[i] \in UnencodableChars } }

\* V40^A, H0^_A, N13^A, N255^
CorePages ==
    { Page(PageAnimate_VSCROLL, 40, <<65>>), Page(PageAnimate_HSCROLL, 0, <<95, 65>>),
      Page(PageAnimate_NONE, 13, <<65>>), Page(PageAnimate_NONE, 255, <<>>) }

InputMessages ==
    { DisplayMessage(<<p>>) : p \in InputPages }
    \cup { DisplayMessage(ps) : ps \in UNION { [1..k -> CorePages] : k \in 2..MaxPages } }
    \cup { DisplayMessage(<<Page(a, d, <<65>>)>>) :
               a \in PageAnimateValues, d \in {-1, -40, -256} }
    \cup { PingMessage(b) : b \in ByteSamples }
    \cup { ResponseMessage(b) : b \in ByteSamples }

\* page strings: an optional "<animate><delay>^" prefix, then text
\* letters: none, N, V, H, v, X
\* delays: none, 0, 7, 40, 040, 255, 256, and 4 in Arabic-Indic, 5 in fullwidth digits
StrLetters == { <<>>, <<78>>, <<86>>, <<72>>, <<118>>, <<88>> }
StrDelays ==
    { <<>>, <<48>>, <<55>>, <<52, 48>>, <<48, 52, 48>>, <<50, 53, 53>>, <<50, 53, 54>>,
      <<1636>>, <<65301>> }
\* 'A', '^', '_', '4'
StrTextChars == {65, 94, 95, 52}

InputPageStrings ==
    { l \o d \o <<ATTRS_SEP>> \o t :
        l \in StrLetters, d \in StrDelays, t \in SeqsUpTo(StrTextChars, MaxStrTextLen) }
    \cup SeqsUpTo(StrTextChars, MaxStrTextLen)

\* V40^A, H0^_A, h0^_A, ^A, A, N040^
CorePageStrings ==
    { <<86, 52, 48, 94, 65>>, <<72, 48, 94, 95, 65>>, <<104, 48, 94, 95, 65>>, <<94, 65>>,
      <<65>>, <<78, 48, 52, 48, 94>> }

InputStrings ==
    InputPageStrings
    \cup { Join(ss, <<PAGE_SEP>>) : ss \in UNION { [1..k -> CorePageStrings] : k \in 2..MaxPages } }

\* ------------------------------------------------------------------ state
VARIABLES
    input,      \* the value a chain of conversions started from
    inputKind,  \* "message", "page", "string" or "none"
    value,      \* [err, val]: the result of the last conversion (or the input)
    valueKind,  \* what value.val is: "message", "page", "string", "bytes"
    ops         \* the conversions applied so far, in order

codecVars == <<input, inputKind, value, valueKind, ops>>

VARIABLES
    ignore_responses,  \* PID.ignore_responses
    is_open,     \* the Serial port is open
    rx,          \* bytes the device sent that were not read yet: in_waiting is Len(rx)
    rxCall,      \* for each byte of rx, the number of the call the device answered with it
    unanswered,  \* numbers of the calls whose frame was written and not answered yet
    pc,          \* where the current send call is: "Idle", "Prepared", "Sent",
                 \* "AwaitingAck", "Acked" (returned normally), "Failed" (raised)
    callNo,      \* number of send calls started so far
    arg,         \* the argument of the current call
    data,        \* the local variable data once prepared: the bytes to write
    error,       \* the exception the current call raised, "none" if none
    io,          \* the transport operations of the current call, in order
    trail,       \* the positions the current call went through, in order
    seen,        \* what the read of the current call took from rx, and how many
                 \* bytes were waiting in rx when the call wrote its frame
    scope,       \* "unscoped", "inside" a with block, "exited" when the last one ended
    depth,       \* number of with blocks on the connection that are open
    closeCalls,  \* number of close() calls on the Serial object
    exitedBy,    \* how the with block ended: "none" (not yet), "normal", "exception"
    propagated   \* the exception that ended the with block reached the caller

pidVars ==
    <<ignore_responses, is_open, rx, rxCall, unanswered, pc, callNo, arg, data, error, io,
      trail, seen, scope, depth, closeCalls, exitedBy, propagated>>

vars ==
    <<input, inputKind, value, valueKind, ops, ignore_responses, is_open, rx, rxCall,
      unanswered, pc, callNo, arg, data, error, io, trail, seen, scope, depth,
      closeCalls, exitedBy, propagated>>

NoArg == [val |-> <<>>, type |-> "none"]

NoRead == [consumed |-> <<>>, calls |-> {}, waiting |-> 0, stale |-> 0]

CodecParked ==
    /\ input = <<>> /\ inputKind = "none" /\ value = Ok(<<>>) /\ valueKind = "none"
    /\ ops = <<>>

PidParked ==
    /\ ignore_responses = FALSE /\ is_open = FALSE /\ rx = <<>> /\ rxCall = <<>>
    /\ unanswered = {} /\ pc = "Idle" /\ callNo = 0 /\ arg = NoArg /\ data = <<>>
    /\ error = "none" /\ io = <<>> /\ trail = <<>> /\ seen = NoRead
    /\ scope = "unscoped" /\ depth = 0
    /\ closeCalls = 0 /\ exitedBy = "none" /\ propagated = FALSE

CodecInit ==
    /\ \/ inputKind = "message" /\ input \in InputMessages
       \/ inputKind = "page" /\ input \in InputPages \cup UnencodablePages
       \/ inputKind = "string" /\ input \in InputStrings
    /\ value = Ok(input)
    /\ valueKind = inputKind
    /\ ops = <<>>
    /\ PidParked

CanApply(kind) == value.err = "none" /\ valueKind = kind /\ Len(ops) < MaxOps

Applied(name, result, kind) ==
    /\ value' = result
    /\ valueKind' = kind
    /\ ops' = Append(ops, name)
    /\ UNCHANGED <<input, inputKind>>
    /\ UNCHANGED pidVars

\* m.to_bytes() for a Message m
DoMessageToBytes ==
    CanApply("message") /\ Applied("Message.to_bytes", Message_to_bytes(value.val), "bytes")

\* inspect(b)
DoInspect == CanApply("bytes") /\ Applied("inspect", inspect(value.val), "message")

\* str(m) for a DisplayMessage m
DoDisplayMessageStr ==
    /\ CanApply("message") /\ value.val.kind = "DisplayMessage"
    /\ Applied("DisplayMessage.__str__", Ok(DisplayMessage_str(value.val)), "string")

\* DisplayMessage.from_str(s)
DoDisplayMessageFromStr ==
    CanApply("string")
    /\ Applied("DisplayMessage.from_str", DisplayMessage_from_str(value.val), "message")

\* p.to_bytes() for a Page p
DoPageToBytes ==
    CanApply("page") /\ Applied("Page.to_bytes", Page_to_bytes(value.val), "pagebytes")

\* Page.from_bytes(b)
DoPageFromBytes ==
    CanApply("pagebytes") /\ Applied("Page.from_bytes", Page_from_bytes(value.val), "page")

CodecNext ==
    \/ DoMessageToBytes
    \/ DoInspect
    \/ DoDisplayMessageStr
    \/ DoDisplayMessageFromStr
    \/ DoPageToBytes
    \/ DoPageFromBytes

SpecCodec == CodecInit /\ [][CodecNext]_vars

\* ---------------------------------------------------------- byte buffers
\* 0x00, 0x02 (STX), 0x03 (ETX), 0x10 (DLE), 0xFF
RawBytes == {0, 2, 3, 16, 255}

RawBuffers == SeqsUpTo(RawBytes, MaxRawLen)

\* buffers given to Page.from_bytes: short ones, and a 4-byte header (known and
\* unknown animation codes, offsets, delays, byte 3 zero or not) with text bytes
\* (a letter, a line break, a space, a byte with no character)
PageTextBytes == {65, 10, 32, 255}

PageBuffers ==
    SeqsUpTo({0, 29, 255}, 3)
    \cup { <<a, o, d, z>> \o t :
             a \in {0, 29, 47, 255}, o \in {0, 2}, d \in {0, 13, 255}, z \in {0, 255},
             t \in SeqsUpTo(PageTextBytes, MaxPageTextBytes) }

\* page encodings inside a DisplayMessage buffer: N0^, N40^A, an unknown
\* animation code, a page cut short
CorePageBuffers == { <<0, 0, 0, 0>>, <<0, 0, 40, 0, 65>>, <<255, 0, 0, 0>>, <<0, 0, 0>> }

\* what may follow the 0x0D that ends the first page
PageTails ==
    { <<>>, <<1>>, <<255>>, <<13>>, <<0>> }
    \cup { <<x>> \o pb \o e : x \in {1, 0, 255}, pb \in CorePageBuffers,
                              e \in { <<>>, <<13>>, <<13, 1>>, <<13, 255>> } }

DisplayBuffers ==
    { DisplayMessage_marker \o pb \o <<13>> \o t : pb \in CorePageBuffers, t \in PageTails }
    \cup { DisplayMessage_marker \o pb : pb \in CorePageBuffers \cup {<<>>} }
    \cup { <<>>, <<1>>, <<1, 68>>, <<1, 68, 1>>, <<13>> }

\* buffers given to inspect: each marker and its beginnings, with 0 to 3 more bytes
MarkerStarts ==
    { <<>>, <<1>>, <<1, 68>>, <<1, 68, 0>>, <<1, 80>>, <<1, 82>>, <<1, 0>>, <<68, 0>>, <<80>> }

InspectBuffers ==
    { m \o t : m \in MarkerStarts, t \in SeqsUpTo({0, 111}, 3) }
    \cup DisplayBuffers

\* b with the bit of weight w of its i-th byte inverted
FlipBufferBit(b, i, w) == [b EXCEPT ![i] = FlipBit(b[i], w)]

BitWeights == {1, 2, 4, 8, 16, 32, 64, 128}

BytesInit ==
    /\ \/ inputKind = "buffer" /\ input \in RawBuffers
       \/ inputKind = "pagebytes" /\ input \in PageBuffers
       \/ inputKind = "displaybytes" /\ input \in DisplayBuffers
       \/ inputKind = "bytes" /\ input \in InspectBuffers
    /\ value = Ok(input)
    /\ valueKind = inputKind
    /\ ops = <<>>
    /\ PidParked

CanStep(kinds) == value.err = "none" /\ valueKind \in kinds /\ Len(ops) < MaxSteps

\* data + _crc(data)
DoCrcAppend ==
    /\ CanStep({"buffer"})
    /\ Applied("_crc", Ok(value.val \o _crc(value.val)), "checksummed")

\* one bit of a checksummed buffer is inverted on the way
DoFlipBit ==
    /\ CanStep({"checksummed"})
    /\ \E i \in 1..Len(value.val), w \in BitWeights :
          Applied("flip", Ok(FlipBufferBit(value.val, i, w)), "corrupted")

\* _uncrc(b)
DoUncrc ==
    /\ CanStep({"buffer", "checksummed", "corrupted"})
    /\ Applied("_uncrc", _uncrc(value.val), "verified")

\* dlestxetx.encode(b)
DoFrame ==
    /\ CanStep({"buffer"})
    /\ Applied("dlestxetx.encode", Ok(dlestxetx_encode(value.val)), "framed")

\* dlestxetx.decode(b)
DoDeframe ==
    /\ CanStep({"buffer", "framed"})
    /\ Applied("dlestxetx.decode", dlestxetx_decode(value.val), "deframed")

\* DisplayMessage.from_bytes(b)
DoDisplayMessageFromBytes ==
    /\ CanStep({"displaybytes"})
    /\ Applied("DisplayMessage.from_bytes", DisplayMessage_from_bytes(value.val), "message")

\* Page.from_bytes(b) and inspect(b) on any buffer
DoPageFromRawBytes ==
    /\ CanStep({"pagebytes"}) /\ ops = <<>>
    /\ Applied("Page.from_bytes", Page_from_bytes(value.val), "page")

DoInspectRaw ==
    /\ CanStep({"bytes"}) /\ ops = <<>>
    /\ Applied("inspect", inspect(value.val), "message")

BytesNext ==
    \/ DoCrcAppend
    \/ DoFlipBit
    \/ DoUncrc
    \/ DoFrame
    \/ DoDeframe
    \/ DoDisplayMessageFromBytes
    \/ DoPageFromRawBytes
    \/ DoInspectRaw

SpecBytes == BytesInit /\ [][BytesNext]_vars

\* ---------------------------------------------------------------- PID
\* dlestxetx.read(serial): takes bytes from the front of the input buffer until
\* one packet is complete.  [err, val, used]: val is the payload, used the
\* number of bytes taken.  Running out of bytes is the read timeout.
dlestxetx_read(buf) ==
    IF buf = <<>> THEN [err |-> "TimeoutError", val |-> <<>>, used |-> 0]
    ELSE IF buf[1] # DLE THEN [err |-> "ValueError", val |-> <<>>, used |-> 1]
    ELSE IF Len(buf) = 1 THEN [err |-> "TimeoutError", val |-> <<>>, used |-> 1]
    ELSE IF buf[2] # STX THEN [err |-> "ValueError", val |-> <<>>, used |-> 2]
    ELSE LET r == Unstuff(buf, 3, <<>>)
         IN IF r.st = "done" THEN [err |-> "none", val |-> r.val, used |-> r.next - 1]
            ELSE IF r.st = "short"
                 THEN [err |-> "TimeoutError", val |-> <<>>, used |-> Len(buf)]
            ELSE [err |-> "ValueError", val |-> <<>>, used |-> r.next - 1]

\* The argument of send: a str, a Message or bytes.
StrArg(v) == [val |-> v, type |-> "str"]
MessageArg(v) == [val |-> v, type |-> "Message"]
BytesArg(v) == [val |-> v, type |-> "bytes"]

\* mutant of PID_send_prepare: a packet is sent unchanged only if its checksum
\* verifies too
PID_send_prepare_ChecksCrc(a) ==
    LET message == IF a.type = "str" THEN DisplayMessage_from_str(a.val) ELSE Ok(a.val)
        bytes == IF message.err # "none" THEN message
                 ELSE IF a.type = "bytes" THEN message
                 ELSE Message_to_bytes(message.val)
        unframed == dlestxetx_decode(bytes.val)
        is_framed == unframed.err = "none" /\ _uncrc(unframed.val).err = "none"
    IN IF bytes.err # "none" THEN Raise(bytes.err)
       ELSE IF is_framed THEN Ok(bytes.val)
       ELSE Ok(dlestxetx_encode(bytes.val \o _crc(bytes.val)))

\* PID.send up to the write: the bytes to write, or the exception
PID_send_prepare(a) ==
    LET message == IF a.type = "str" THEN DisplayMessage_from_str(a.val) ELSE Ok(a.val)
        bytes == IF message.err # "none" THEN message
                 ELSE IF a.type = "bytes" THEN message
                 ELSE Message_to_bytes(message.val)
        is_framed == dlestxetx_decode(bytes.val).err = "none"
    IN IF bytes.err # "none" THEN Raise(bytes.err)
       ELSE IF is_framed THEN Ok(bytes.val)
       ELSE Ok(dlestxetx_encode(bytes.val \o _crc(bytes.val)))

\* PID.send, line 682: _uncrc(dlestxetx.read(self.serial))
PID_send_response(packet) ==
    IF packet.err = "none" THEN _uncrc(packet.val) ELSE Raise(packet.err)

\* mutant of PID_send_check: bytes left in the buffer are not looked at
PID_send_check_IgnoresWaiting(packet, in_waiting) ==
    LET response == IF packet.err = "none" THEN _uncrc(packet.val) ELSE Raise(packet.err)
        message == inspect(response.val)
    IN IF response.err # "none" THEN response.err
       ELSE IF message.err # "none" THEN message.err
       ELSE IF message.val.kind # "ResponseMessage" THEN "NotImplementedError"
       ELSE "none"

\* PID.send after dlestxetx.read: the exception raised, "none" if none
PID_send_check(packet, in_waiting) ==
    LET response == IF packet.err = "none" THEN _uncrc(packet.val) ELSE Raise(packet.err)
        message == inspect(response.val)
    IN IF response.err # "none" THEN response.err
       ELSE IF in_waiting # 0 THEN "NotImplementedError"
       ELSE IF message.err # "none" THEN message.err
       ELSE IF message.val.kind # "ResponseMessage" THEN "NotImplementedError"
       ELSE "none"

\* mutant of PID_exit: __exit__ returns True
PID_exit_ReturnsTrue == TRUE

\* PID.__exit__: its return value
PID_exit == FALSE

\* What the caller sends.
\* strings: "A", "X5^A" (no such animation)
\* messages: a DisplayMessage with a delay of 256, one with the text "@", a
\*           PingMessage whose byte is 256
\* bytes: 01 50 10 as a checksummed packet, the same packet with a wrong
\*        checksum, a packet that never ends (not a packet: it gets a frame)
PingBytes == <<1, 80, 16>>

SendStrings == { <<65>>, <<88, 53, 94, 65>> }

SendMessages ==
    { DisplayMessage(<<Page(PageAnimate_NONE, 256, <<65>>)>>),
      DisplayMessage(<<Page(PageAnimate_NONE, 20, <<64>>)>>),
      PingMessage(256) }

SendBytes ==
    { dlestxetx_encode(PingBytes \o _crc(PingBytes)),
      dlestxetx_encode(PingBytes \o <<0, 0>>),
      <<DLE, STX, 1>> }

\* What the device may put on the line after a frame was written to it.
Packet(payload) == dlestxetx_encode(payload \o _crc(payload))

AckPacket == Packet(<<1, 82, 111, 0>>)

DeviceReplies ==
    { AckPacket,                                   \* an acknowledgement
      AckPacket \o AckPacket,                      \* two of them
      Packet(<<1, 80, 111>>),                      \* a PingMessage
      dlestxetx_encode(<<1, 82, 111, 0, 0, 0>>),   \* wrong checksum
      Take(AckPacket, 4) }                         \* the start of a packet only

PidInit ==
    /\ ignore_responses \in BOOLEAN
    /\ scope = "unscoped" /\ depth = 0
    /\ is_open = TRUE
    /\ rx = <<>> /\ rxCall = <<>> /\ unanswered = {}
    /\ pc = "Idle" /\ callNo = 0 /\ arg = NoArg /\ data = <<>> /\ error = "none"
    /\ io = <<>> /\ trail = <<>> /\ seen = NoRead
    /\ closeCalls = 0 /\ exitedBy = "none" /\ propagated = FALSE
    /\ CodecParked

\* mutant of SendCall: the call goes on to write when preparing its input failed
SendCall_WritesAnyway(a) ==
    /\ pc = "Idle" /\ callNo < MaxCalls
    /\ LET prepared == PID_send_prepare(a)
       IN /\ pc' = "Prepared"
          /\ data' = prepared.val
          /\ error' = prepared.err
    /\ trail' = <<pc'>>
    /\ arg' = a
    /\ callNo' = callNo + 1
    /\ io' = <<>> /\ seen' = NoRead
    /\ UNCHANGED <<ignore_responses, is_open, rx, rxCall, unanswered, scope, depth, closeCalls,
                   exitedBy, propagated>>
    /\ UNCHANGED codecVars

\* send(a), lines 669-679: the argument becomes the bytes to write
SendCall(a) ==
    /\ pc = "Idle" /\ callNo < MaxCalls
    /\ LET prepared == PID_send_prepare(a)
       IN /\ pc' = IF prepared.err = "none" THEN "Prepared" ELSE "Failed"
          /\ data' = prepared.val
          /\ error' = prepared.err
    /\ trail' = <<pc'>>
    /\ arg' = a
    /\ callNo' = callNo + 1
    /\ io' = <<>> /\ seen' = NoRead
    /\ UNCHANGED <<ignore_responses, is_open, rx, rxCall, unanswered, scope, depth, closeCalls,
                   exitedBy, propagated>>
    /\ UNCHANGED codecVars

\* pid.send(data)
Send ==
    \/ \E v \in SendStrings : SendCall(StrArg(v))
    \/ \E v \in SendMessages : SendCall(MessageArg(v))
    \/ \E v \in SendBytes : SendCall(BytesArg(v))

\* pid.ping(): send(PingMessage())
Ping == SendCall(MessageArg(PingMessage(111)))

\* self.serial.write(data), line 680: a closed port raises SerialException
SendWrite ==
    /\ pc = "Prepared"
    /\ IF is_open
       THEN /\ pc' = "Sent" /\ io' = Append(io, "write")
            /\ unanswered' = unanswered \cup {callNo}
            /\ error' = error
            /\ seen' = [seen EXCEPT !.stale = Len(rx)]
       ELSE /\ pc' = "Failed" /\ io' = Append(io, "write refused")
            /\ unanswered' = unanswered
            /\ error' = "SerialException"
            /\ seen' = seen
    /\ trail' = Append(trail, pc')
    /\ UNCHANGED <<ignore_responses, is_open, rx, rxCall, callNo, arg, data, scope, depth,
                   closeCalls, exitedBy, propagated>>
    /\ UNCHANGED codecVars

\* mutant of SendAwait: the response is read whatever ignore_responses says
SendAwait_AlwaysReads ==
    /\ pc = "Sent"
    /\ pc' = "AwaitingAck"
    /\ trail' = Append(trail, pc')
    /\ UNCHANGED <<ignore_responses, is_open, rx, rxCall, unanswered, callNo, arg, data,
                   error, io, seen, scope, depth, closeCalls, exitedBy, propagated>>
    /\ UNCHANGED codecVars

\* if not self.ignore_responses, line 681
SendAwait ==
    /\ pc = "Sent"
    /\ pc' = IF ignore_responses THEN "Acked" ELSE "AwaitingAck"
    /\ trail' = Append(trail, pc')
    /\ UNCHANGED <<ignore_responses, is_open, rx, rxCall, unanswered, callNo, arg, data,
                   error, io, seen, scope, depth, closeCalls, exitedBy, propagated>>
    /\ UNCHANGED codecVars

\* mutant of SendRead: a response that cannot be read makes the call write its
\* frame again
SendRead_Retries ==
    /\ pc = "AwaitingAck" /\ io = <<"write">>
    /\ LET packet == dlestxetx_read(rx)
           response == PID_send_response(packet)
       IN /\ rx' = Drop(rx, packet.used)
          /\ rxCall' = Drop(rxCall, packet.used)
          /\ seen' = [consumed |-> Take(rx, packet.used),
                      calls |-> { rxCall[i] : i \in 1..packet.used },
                      waiting |-> 0,
                      stale |-> seen.stale]
          /\ error' = "none"
          /\ pc' = IF response.err = "none" THEN "AwaitingAck" ELSE "Prepared"
          /\ trail' = IF response.err = "none" THEN trail ELSE Append(trail, "Prepared")
    /\ io' = Append(io, "read")
    /\ UNCHANGED <<ignore_responses, is_open, unanswered, callNo, arg, data, scope, depth,
                   closeCalls, exitedBy, propagated>>
    /\ UNCHANGED codecVars

\* line 682: dlestxetx.read takes one packet from the input buffer and _uncrc
\* verifies it; either may raise. The call stays in AwaitingAck when both pass.
SendRead ==
    /\ pc = "AwaitingAck" /\ io = <<"write">>
    /\ LET packet == dlestxetx_read(rx)
           response == PID_send_response(packet)
       IN /\ rx' = Drop(rx, packet.used)
          /\ rxCall' = Drop(rxCall, packet.used)
          /\ seen' = [consumed |-> Take(rx, packet.used),
                      calls |-> { rxCall[i] : i \in 1..packet.used },
                      waiting |-> 0,
                      stale |-> seen.stale]
          /\ error' = response.err
          /\ pc' = IF response.err = "none" THEN "AwaitingAck" ELSE "Failed"
          /\ trail' = IF response.err = "none" THEN trail ELSE Append(trail, "Failed")
    /\ io' = Append(io, "read")
    /\ UNCHANGED <<ignore_responses, is_open, unanswered, callNo, arg, data, scope, depth,
                   closeCalls, exitedBy, propagated>>
    /\ UNCHANGED codecVars

\* lines 683-686, after the read returned: serial.in_waiting is sampled, then the
\* response is classified. What the device sent since the read is counted.
SendCheck ==
    /\ pc = "AwaitingAck" /\ io = <<"write", "read">>
    /\ LET outcome == PID_send_check(dlestxetx_read(seen.consumed), Len(rx))
       IN /\ error' = outcome
          /\ pc' = IF outcome = "none" THEN "Acked" ELSE "Failed"
    /\ seen' = [seen EXCEPT !.waiting = Len(rx)]
    /\ trail' = Append(trail, pc')
    /\ UNCHANGED <<ignore_responses, is_open, rx, rxCall, unanswered, callNo, arg, data, io,
                   scope, depth, closeCalls, exitedBy, propagated>>
    /\ UNCHANGED codecVars

\* The call is over: it returned, or its exception was handled by the caller
\* (inside the with block, when there is one).
SendReturn ==
    /\ pc \in {"Acked", "Failed"}
    /\ pc' = "Idle"
    /\ arg' = NoArg /\ data' = <<>> /\ error' = "none"
    /\ io' = <<>> /\ trail' = <<>> /\ seen' = NoRead
    /\ UNCHANGED <<ignore_responses, is_open, rx, rxCall, unanswered, callNo, scope, depth,
                   closeCalls, exitedBy, propagated>>
    /\ UNCHANGED codecVars

\* The device answers a frame it was sent, at any time after the write.
DeviceReply ==
    /\ is_open
    /\ \E c \in unanswered, reply \in DeviceReplies :
          /\ rx' = rx \o reply
          /\ rxCall' = rxCall \o [i \in 1..Len(reply) |-> c]
          /\ unanswered' = unanswered \ {c}
    /\ UNCHANGED <<ignore_responses, is_open, pc, callNo, arg, data, error, io, trail, seen,
                   scope, depth, closeCalls, exitedBy, propagated>>
    /\ UNCHANGED codecVars

\* pid.close() by the caller, between two calls: inside a with block or not,
\* on an open or an already closed port. Every block that is open keeps one of
\* the counted close() calls for its end.
Close ==
    /\ pc = "Idle"
    /\ closeCalls + depth < MaxCloses
    /\ is_open' = FALSE
    /\ closeCalls' = closeCalls + 1
    /\ UNCHANGED <<ignore_responses, rx, rxCall, unanswered, pc, callNo, arg, data, error, io,
                   trail, seen, scope, depth, exitedBy, propagated>>
    /\ UNCHANGED codecVars

\* "with pid:" begins (AbstractContextManager.__enter__ returns self), on any
\* connection: one never in a block, one that left a block, or one inside a
\* block already.
EnterScope ==
    /\ pc = "Idle" /\ closeCalls + depth < MaxCloses
    /\ scope' = "inside"
    /\ depth' = depth + 1
    /\ exitedBy' = "none" /\ propagated' = FALSE
    /\ UNCHANGED <<ignore_responses, is_open, rx, rxCall, unanswered, pc, callNo, arg, data,
                   error, io, trail, seen, closeCalls>>
    /\ UNCHANGED codecVars

\* The innermost open with block ends, normally or by the exception of a failed
\* send: __exit__ calls close() and its return value decides whether the
\* exception goes on to the caller.
ExitScope ==
    /\ depth > 0 /\ pc \in {"Idle", "Failed"}
    /\ depth' = depth - 1
    /\ scope' = IF depth = 1 THEN "exited" ELSE "inside"
    /\ is_open' = FALSE
    /\ closeCalls' = closeCalls + 1
    /\ exitedBy' = IF pc = "Failed" THEN "exception" ELSE "normal"
    /\ propagated' = (pc = "Failed" /\ ~PID_exit)
    /\ UNCHANGED <<ignore_responses, rx, rxCall, unanswered, pc, callNo, arg, data, error, io,
                   trail, seen>>
    /\ UNCHANGED codecVars

Next ==
    \/ Send
    \/ Ping
    \/ SendWrite
    \/ SendAwait
    \/ SendRead
    \/ SendCheck
    \/ SendReturn
    \/ DeviceReply
    \/ Close
    \/ EnterScope
    \/ ExitScope

Spec == PidInit /\ [][Next]_vars

\* ------------------------------------------------------- codec properties
\* text of permitted characters and the two markers
ValidText(t) ==
    \A i \in 1..Len(t) : t[i] \in TEXT_ENCODING_KEYS \cup {RIGHT_CHAR_DECODED, NEWLINE_CHAR}

ValidPage(p) ==
    /\ p.animate \in PageAnimateValues
    /\ p.delay \in 0..255
    /\ ValidText(p.text)
    /\ LeadCount(p.text, NEWLINE_CHAR) < 256

ValidMessage(m) ==
    IF m.kind = "DisplayMessage"
    THEN Len(m.pages) >= 1 /\ \A i \in 1..Len(m.pages) : ValidPage(m.pages[i])
    ELSE m.unspecified_byte \in 0..255

SameMessage(r, m) == r.err = "none" /\ r.val.kind = m.kind /\ r.val = m

\* Text that decoding gives back unchanged: after the leading line-break
\* markers it does not end with a line-break marker, no line ends with a
\* space, and the two characters '\' 'R' never follow each other.
TextSurvivesDecoding(t) ==
    LET rest == Drop(t, LeadCount(t, NEWLINE_CHAR))
        lines == Split(rest, NEWLINE_CHAR)
    IN /\ rest = <<>> \/ rest[Len(rest)] # NEWLINE_CHAR
       /\ \A i \in 1..Len(lines) : lines[i] = <<>> \/ lines[i][Len(lines[i])] # 32
       /\ \A i \in 1..(Len(t) - 1) : SubSeq(t, i, i + 1) # RIGHT_CHAR_ENCODED

PageRoundTripped ==
    inputKind = "page" /\ ValidPage(input) /\ ops = <<"Page.to_bytes", "Page.from_bytes">>

\* C1: for every valid message m, inspect(m.to_bytes()) is a message of the
\* same variant that equals m.  Stated here for the messages whose page texts
\* survive Page-level decoding (the texts that do not are C2's matter), which
\* the claim covers.
C1_InspectRoundTrip ==
    (inputKind = "message" /\ ValidMessage(input)
        /\ (input.kind = "DisplayMessage"
              => \A i \in 1..Len(input.pages) : TextSurvivesDecoding(input.pages[i].text))
        /\ ops = <<"Message.to_bytes", "inspect">>)
    => SameMessage(value, input)

\* C2 as claimed: for every valid Page p, Page.from_bytes(p.to_bytes()) == p.
C2_PageRoundTrip_AnyText ==
    PageRoundTripped => (value.err = "none" /\ value.val = input)

\* C2 (amended): for every valid Page p whose text survives decoding (no
\* trailing line-break marker after the leading ones, no line ending in a
\* space, no literal '\R'), Page.from_bytes(p.to_bytes()) == p.
C2_PageRoundTrip ==
    (PageRoundTripped /\ TextSurvivesDecoding(input.text))
    => (value.err = "none" /\ value.val = input)

\* "_A~" went through Page.to_bytes and Page.from_bytes and came back
C2_Witness ==
    /\ PageRoundTripped
    /\ input.text = <<95, 65, 126>> /\ input.delay = 13
    /\ value.err = "none" /\ value.val = input

\* Every page of the string states an animation letter of the enum (in either
\* case) and a delay in 0..255.
ExplicitPageString(ps) ==
    LET m == StrRePrefix(ps)
    IN /\ m.matched /\ m.animate # <<>> /\ m.delay # <<>>
       /\ Upper(m.animate[1]) \in PageAnimateValues
       /\ ParseInt(m.delay) \in 0..255

ExplicitString(string) ==
    LET strs == Split(string, PAGE_SEP)
    IN \A i \in 1..Len(strs) : ExplicitPageString(strs[i])

\* The letter is the enum's own (upper-case) value and the delay is written
\* as str() writes it: no superfluous leading zero.
CanonicalPageString(ps) ==
    LET m == StrRePrefix(ps)
    IN /\ m.animate # <<>> /\ m.animate[1] \in PageAnimateValues
       /\ m.delay # <<>> /\ DecStr(ParseInt(m.delay)) = m.delay

CanonicalString(string) ==
    LET strs == Split(string, PAGE_SEP)
    IN \A i \in 1..Len(strs) : CanonicalPageString(strs[i])

StringRoundTripped ==
    /\ inputKind = "string" /\ ExplicitString(input)
    /\ Len(ops) = 2 /\ ops[1] = "DisplayMessage.from_str"
    /\ ops[2] = "DisplayMessage.__str__"

\* C3 as claimed: for every valid string s whose pages all state their
\* animation letter and delay, str(DisplayMessage.from_str(s)) == s.
C3_StrRoundTrip_AnySpelling ==
    StringRoundTripped => (value.err = "none" /\ value.val = input)

\* C3 (amended): for every valid string s whose pages all state their
\* animation letter in upper case and their delay in decimal digits without a
\* superfluous leading zero, str(DisplayMessage.from_str(s)) == s.
C3_StrRoundTrip ==
    (StringRoundTripped /\ CanonicalString(input)) => (value.err = "none" /\ value.val = input)

\* "V40^A|H0^_A" was parsed and written back
C3_Witness ==
    /\ StringRoundTripped /\ CanonicalString(input)
    /\ input = <<86, 52, 48, 94, 65, 124, 72, 48, 94, 95, 65>>
    /\ value.val = input

\* C4: for every DisplayMessage m with at least one page, all pages valid,
\* DisplayMessage.from_str(str(m)) == m.
C4_FromStrOfStr ==
    (inputKind = "message" /\ input.kind = "DisplayMessage" /\ ValidMessage(input)
        /\ ops = <<"DisplayMessage.__str__", "DisplayMessage.from_str">>)
    => SameMessage(value, input)

\* a two-page message whose second page is not the positional default, and a
\* first page with delay 0, came back from their strings
C4_Witness ==
    /\ inputKind = "message" /\ input.kind = "DisplayMessage"
    /\ ops = <<"DisplayMessage.__str__", "DisplayMessage.from_str">>
    /\ Len(input.pages) = 2
    /\ input.pages[1].delay = 0 /\ input.pages[2].animate = PageAnimate_NONE
    /\ SameMessage(value, input)

\* --------------------------------------------------- transport properties
\* the current call wrote its frame and read the transport
HasRead == io = <<"write", "read">>

\* what the read of the current call took, with the frame and the checksum removed
SeenPayload == dlestxetx_decode(seen.consumed)

SeenResponse ==
    IF SeenPayload.err = "none" THEN _uncrc(SeenPayload.val) ELSE Raise(SeenPayload.err)

SeenMessage ==
    IF SeenResponse.err = "none" THEN inspect(SeenResponse.val) ELSE Raise(SeenResponse.err)

\* C5: with acknowledgement checking enabled, a call returns normally only if
\* the bytes read back are one complete packet whose payload passes the checksum
\* and is classified as a ResponseMessage, with nothing more waiting in the
\* transport; a verified packet followed by more data, or classified as another
\* variant, ends the call with NotImplementedError.
C5_AckedOnlyByResponse ==
    /\ (pc = "Acked" /\ ~ignore_responses) =>
          /\ HasRead
          /\ SeenMessage.err = "none"
          /\ SeenMessage.val.kind = "ResponseMessage"
          /\ seen.waiting = 0
    /\ (/\ pc \in {"Acked", "Failed"} /\ HasRead
        /\ SeenResponse.err = "none"
        /\ \/ seen.waiting > 0
           \/ SeenMessage.err = "none" /\ SeenMessage.val.kind # "ResponseMessage")
       => (pc = "Failed" /\ error = "NotImplementedError")

C5_Witness ==
    /\ pc = "Acked" /\ ~ignore_responses
    /\ seen.consumed = AckPacket /\ seen.waiting = 0
    /\ SeenMessage = Ok(ResponseMessage(111))

\* the current call was given bytes and got as far as having data to write
BytesPrepared == arg.type = "bytes" /\ trail # <<>> /\ trail[1] = "Prepared"

\* C6 as stated: bytes are written unchanged if and only if they are a packet
\* whose payload passes the checksum; all other bytes get a checksum and a frame.
C6_UnchangedIffChecksummedPacket ==
    BytesPrepared =>
        LET unframed == dlestxetx_decode(arg.val)
            valid == unframed.err = "none" /\ _uncrc(unframed.val).err = "none"
        IN /\ (data = arg.val) <=> valid
           /\ ~valid => data = dlestxetx_encode(arg.val \o _crc(arg.val))

\* C6: bytes are written unchanged if and only if they are one well-formed
\* DLE/STX/ETX packet, whatever its checksum; all other bytes get a checksum
\* and a frame.
C6_UnchangedIffFramed ==
    BytesPrepared =>
        LET framed == dlestxetx_decode(arg.val).err = "none"
        IN /\ (data = arg.val) <=> framed
           /\ ~framed => data = dlestxetx_encode(arg.val \o _crc(arg.val))

C6_Witness ==
    /\ BytesPrepared /\ pc = "Sent" /\ io = <<"write">>
    /\ arg.val = dlestxetx_encode(PingBytes \o <<0, 0>>)
    /\ _uncrc(dlestxetx_decode(arg.val).val).err # "none"
    /\ data = arg.val

\* C7 as stated: a call that returns normally with acknowledgement checking
\* enabled was acknowledged by bytes that reached the transport after the call
\* wrote its frame, never by bytes an earlier call left there.
C7_AckedByOwnReply ==
    (pc = "Acked" /\ ~ignore_responses) => seen.stale = 0

Last(s) == s[Len(s)]

\* the positions a call may go through, in order
CallPaths ==
    { <<"Failed">>,
      <<"Prepared">>,
      <<"Prepared", "Failed">>,
      <<"Prepared", "Sent">>,
      <<"Prepared", "Sent", "Acked">>,
      <<"Prepared", "Sent", "AwaitingAck">>,
      <<"Prepared", "Sent", "AwaitingAck", "Acked">>,
      <<"Prepared", "Sent", "AwaitingAck", "Failed">> }

\* C8: a call goes once through Prepared, Sent, AwaitingAck and ends in Acked
\* or Failed: it writes at most once, reads at most once and only after the
\* write, and a failure ends the call without another write or read.
C8_OneCyclePerCall ==
    /\ (pc = "Idle") <=> (trail = <<>>)
    /\ pc # "Idle" => (trail \in CallPaths /\ Last(trail) = pc)
    /\ io \in { <<>>, <<"write">>, <<"write refused">>, <<"write", "read">> }
    /\ pc \in {"Idle", "Prepared"} => io = <<>>
    /\ pc = "Sent" => io = <<"write">>
    /\ pc = "AwaitingAck" => io \in { <<"write">>, <<"write", "read">> }
    /\ (pc = "Failed" /\ error \in {"TimeoutError", "NotImplementedError"}) => HasRead

C8_Witness ==
    /\ trail = <<"Prepared", "Sent", "AwaitingAck", "Failed">>
    /\ error = "TimeoutError"
    /\ HasRead
    /\ callNo = 1

\* C9: with ignore_responses set a call writes its frame and returns normally
\* without reading, whatever the device sent; without it, a call that wrote its
\* frame ends only after one read, and returns normally only if that read took
\* one complete packet.
C9_ReadsUnlessIgnored ==
    /\ ignore_responses =>
          /\ io \in { <<>>, <<"write">>, <<"write refused">> }
          /\ seen.consumed = <<>>
          /\ pc # "AwaitingAck"
          /\ (pc = "Failed" => io # <<"write">>)
    /\ (~ignore_responses /\ pc \in {"Acked", "Failed"} /\ io # <<>> /\ io[1] = "write")
          => HasRead
    /\ (~ignore_responses /\ pc = "Acked") => SeenPayload.err = "none"

C9_Witness ==
    /\ ignore_responses /\ pc = "Acked" /\ io = <<"write">>
    /\ rx = Packet(<<1, 80, 111>>)

\* C10: the end of a with block, normal or by the exception of a failed send,
\* calls close() exactly once and leaves the connection closed, and the
\* exception that ended the block reaches the caller; this holds for each block
\* when the connection is entered more than once.
C10_ScopeReleasesOnce ==
    /\ []((scope = "inside") <=> (depth > 0))
    /\ [](exitedBy # "none" =>
             /\ ~is_open
             /\ closeCalls >= 1
             /\ propagated <=> (exitedBy = "exception"))
    /\ [](scope = "exited" => exitedBy \in {"normal", "exception"})
    /\ [][(depth' < depth) =>
             /\ depth' = depth - 1
             /\ scope' = IF depth' = 0 THEN "exited" ELSE "inside"
             /\ closeCalls' = closeCalls + 1
             /\ ~is_open'
             /\ (exitedBy' = "exception") <=> (pc = "Failed")
             /\ propagated' <=> (pc = "Failed")
             /\ pc' = pc /\ error' = error]_vars

C10_Witness ==
    /\ scope = "exited" /\ exitedBy = "exception" /\ propagated
    /\ pc = "Failed" /\ error = "NotImplementedError"
    /\ closeCalls = 1 /\ ~is_open

\* ------------------------------------------------- byte buffer properties
\* C11: for every byte buffer b, the empty one included, _crc(b) is a tag of two
\* bytes, low byte first (00 00 for the empty buffer, 78 F0 for the buffer 00),
\* and _uncrc(b + _crc(b)) returns b.
C11_UncrcOfCrc ==
    /\ (ops # <<>> /\ ops[1] = "_crc" /\ Len(ops) = 1) =>
          /\ value.err = "none"
          /\ Len(value.val) = Len(input) + 2
          /\ Take(value.val, Len(input)) = input
          /\ \A i \in 1..Len(value.val) : value.val[i] \in 0..255
          /\ (input = <<>> => value.val = <<0, 0>>)
          /\ (input = <<0>> => value.val = <<0, 120, 240>>)
    /\ ops = <<"_crc", "_uncrc">> => value = Ok(input)

C11_Witness ==
    /\ ops = <<"_crc", "_uncrc">>
    /\ input = <<16, 255, 0>>
    /\ value = Ok(input)

\* C12: _uncrc raises ValueError on a checksummed buffer with any one bit
\* inverted, in the payload or in the tag, and on every buffer shorter than two
\* bytes; it returns no payload then.
C12_CorruptionDetected ==
    /\ ops = <<"_crc", "flip", "_uncrc">> => value = Raise("ValueError")
    /\ (ops = <<"_uncrc">> /\ Len(input) < 2) => value = Raise("ValueError")

C12_Witness ==
    /\ ops = <<"_crc", "flip", "_uncrc">>
    /\ input = <<16, 255>>
    /\ value = Raise("ValueError")

\* number of DLE bytes in b
RECURSIVE CountDLE(_)
CountDLE(b) == IF b = <<>> THEN 0 ELSE (IF Head(b) = DLE THEN 1 ELSE 0) + CountDLE(Tail(b))

\* C13: the frame of a buffer b is DLE STX, b with every DLE doubled, DLE ETX,
\* and de-framing it returns exactly b, wherever b holds DLE, STX or ETX bytes.
C13_DeframeOfFrame ==
    /\ ops = <<"dlestxetx.encode">> =>
          /\ value.err = "none"
          /\ Len(value.val) = Len(input) + CountDLE(input) + 4
          /\ Take(value.val, 2) = <<DLE, STX>>
          /\ Drop(value.val, Len(value.val) - 2) = <<DLE, ETX>>
    /\ ops = <<"dlestxetx.encode", "dlestxetx.decode">> => value = Ok(input)

C13_Witness ==
    /\ ops = <<"dlestxetx.encode", "dlestxetx.decode">>
    /\ input = <<DLE, STX, DLE>>
    /\ value = Ok(input)

\* ------------------------------------------------- parsing and decoding errors
\* The prefix of page string ps names an animation letter that is no
\* PageAnimate value, or a delay that does not fit in one byte.
BadPrefix(ps) ==
    LET match == StrRePrefix(ps)
    IN \/ match.animate # <<>> /\ Upper(match.animate[1]) \notin PageAnimateValues
       \/ match.delay # <<>> /\ ParseInt(match.delay) \notin 0..255

\* C14 as stated: parsing a string fails with ValueError when a page's prefix
\* has a malformed animation letter or a delay outside 0..255, and no parsed
\* page has a delay outside 0..255.
C14_FromStrValidatesPrefix ==
    (ops = <<"DisplayMessage.from_str">> /\ inputKind = "string") =>
        /\ (\E i \in 1..Len(Split(input, PAGE_SEP)) : BadPrefix(Split(input, PAGE_SEP)[i]))
              => value = Raise("ValueError")
        /\ value.err = "none" =>
              \A i \in 1..Len(value.val.pages) : value.val.pages[i].delay \in 0..255

\* What stops the decoding of the pages that start at 0-based position start of
\* buffer b: "boundary" when a page-ending 0x0D is followed by a byte other than
\* 0x01, "unterminated" when no 0x0D follows, "page" when a page between two
\* boundaries does not decode, "none" when the buffer ends after a page's 0x0D.
RECURSIVE PageFault(_, _)
PageFault(b, start) ==
    LET ends == { e \in (start + 1)..Len(b) : b[e] = 13 }
    IN IF ends = {} THEN "unterminated"
       ELSE LET end == CHOOSE e \in ends : \A f \in ends : e <= f
            IN IF Page_from_bytes(SubSeq(b, start + 1, end - 1)).err # "none" THEN "page"
               ELSE IF end = Len(b) THEN "none"
               ELSE IF b[end + 1] # 1 THEN "boundary"
               ELSE PageFault(b, end + 1)

DisplayFault ==
    IF ops = <<"DisplayMessage.from_bytes">> /\ StartsWith(input, DisplayMessage_marker)
    THEN PageFault(input, Len(DisplayMessage_marker))
    ELSE "not decoded"

\* C15 as stated: a page-ending 0x0D followed by a byte other than 0x01 fails
\* with the unsupported kind (NotImplementedError), an unterminated sequence
\* with ValueError.
C15_BoundaryIsUnsupported ==
    /\ DisplayFault = "boundary" => value = Raise("NotImplementedError")
    /\ DisplayFault = "unterminated" => value = Raise("ValueError")

\* C15: when the pages before it decode, a page-ending 0x0D followed by a byte
\* other than 0x01 fails with ValueError, the same kind as a sequence with no
\* 0x0D before the end of the buffer.
C15_BoundaryIsValueError ==
    /\ DisplayFault = "boundary" => value = Raise("ValueError")
    /\ DisplayFault = "unterminated" => value = Raise("ValueError")

\* 01 44 00 | 00 00 00 00 | 0D FF, and a second boundary: ... 0D 01 page 0D FF
C15_Witness ==
    /\ DisplayFault = "boundary"
    /\ input \in { DisplayMessage_marker \o <<0, 0, 0, 0, 13, 255>>,
                   DisplayMessage_marker \o <<0, 0, 0, 0, 13, 1, 0, 0, 40, 0, 65, 13, 255>> }
    /\ value = Raise("ValueError")

\* the number of elements of sequence s that are in set S
RECURSIVE Count(_, _)
Count(s, S) ==
    IF s = <<>> THEN 0 ELSE (IF Head(s) \in S THEN 1 ELSE 0) + Count(Tail(s), S)

\* text bytes that are neither a line break nor the code of a character
UnmappedBytes == (0..255) \ (TEXT_DECODING_KEYS \cup {NEWLINE_BYTESEQ})

\* C16: Page.from_bytes fails with ValueError on fewer than 4 bytes; otherwise
\* with NotImplementedError on an animation code other than 00, 1D, 2F or a
\* nonzero byte 3; otherwise it succeeds with the delay of byte 2 and a
\* replacement character for every text byte that has no mapping.
C16_PageFromBytesClasses ==
    (ops = <<"Page.from_bytes">> /\ inputKind = "pagebytes") =>
        IF Len(input) < 4 THEN value = Raise("ValueError")
        ELSE IF input[1] \notin {0, 29, 47} \/ input[4] # 0
             THEN value = Raise("NotImplementedError")
        ELSE /\ value.err = "none"
             /\ value.val.delay = input[3]
             /\ value.val.animate = ANIMATE_DECODING(input[1])
             /\ Count(value.val.text, {REPLACEMENT_CHARACTER})
                   = Count(Drop(input, 4), UnmappedBytes)

\* 1D 02 0D 00 FF 41 decodes to a vertically scrolling page with delay 13 whose
\* text holds one replacement character
C16_Witness ==
    /\ ops = <<"Page.from_bytes">>
    /\ input = <<29, 2, 13, 0, 255, 65>>
    /\ value.err = "none"
    /\ value.val.delay = 13
    /\ Count(value.val.text, {REPLACEMENT_CHARACTER}) = 1

\* ------------------------------------------------------- encoding errors
\* the characters of text t that have no encoding ('~' is escaped and '_' is
\* the line break, so neither is one)
Offending(t) ==
    { t[i] : i \in { j \in 1..Len(t) :
                        t[j] \notin TEXT_ENCODING_KEYS \cup {RIGHT_CHAR_DECODED, NEWLINE_CHAR} } }

\* the first line (after the leading line breaks) of text t that holds a
\* character with no encoding
FirstOffendingLine(t) ==
    LET lines == Split(Drop(t, LeadCount(t, NEWLINE_CHAR)), NEWLINE_CHAR)
        k == CHOOSE i \in 1..Len(lines) :
                /\ Offending(lines[i]) # {}
                /\ \A j \in 1..(i - 1) : Offending(lines[j]) = {}
    IN lines[k]

EncodedBadPage ==
    /\ ops = <<"Page.to_bytes">>
    /\ inputKind = "page"
    /\ Offending(input.text) # {}

\* C17 as stated: encoding a page whose text has characters with no mapping
\* fails with a ValueError naming every offending character of the text, on
\* whichever line, and produces no bytes.
C17_ListsEveryOffendingChar ==
    EncodedBadPage =>
        /\ value = Raise("ValueError")
        /\ Page_to_bytes_listed(input) = Offending(input.text)

\* C17: encoding a page with a delay in 0..255 whose text has characters with
\* no mapping fails with a ValueError naming exactly the offending characters
\* of the first line that holds one, and produces no bytes.
C17_ListsFirstOffendingLine ==
    (EncodedBadPage /\ input.delay \in 0..255) =>
        /\ value = Raise("ValueError")
        /\ Page_to_bytes_listed(input) = Offending(FirstOffendingLine(input.text))
        /\ Page_to_bytes_listed(input) # {}

\* '@_%': the error names '@' only
C17_Witness ==
    /\ EncodedBadPage
    /\ input = Page(PageAnimate_NONE, 20, <<64, 95, 37>>)
    /\ value = Raise("ValueError")
    /\ Page_to_bytes_listed(input) = {64}

\* ------------------------------------------------------ failed preparation
\* The argument of the call in progress cannot be turned into bytes: a string
\* that does not parse, or a message (given or parsed) that does not encode.
PrepareFails ==
    \/ /\ arg.type = "str"
       /\ LET m == DisplayMessage_from_str(arg.val)
          IN m.err # "none" \/ Message_to_bytes(m.val).err # "none"
    \/ /\ arg.type = "Message"
       /\ Message_to_bytes(arg.val).err # "none"

\* C18: a send call whose input cannot be prepared fails at once with the
\* ValueError of the conversion: it never reaches Sent, writes nothing, reads
\* nothing, and the device is left with no frame of this call to answer.
C18_FailedPrepareTouchesNothing ==
    PrepareFails =>
        /\ pc = "Failed" /\ trail = <<"Failed">>
        /\ error = "ValueError"
        /\ io = <<>>
        /\ seen.consumed = <<>>
        /\ callNo \notin unanswered
        /\ \A i \in 1..Len(rxCall) : rxCall[i] # callNo

\* a second call fails on the text "@" while the reply to the first call, which
\* ignored it, is still unread in the input buffer
C18_Witness ==
    /\ PrepareFails
    /\ arg = MessageArg(DisplayMessage(<<Page(PageAnimate_NONE, 20, <<64>>)>>))
    /\ pc = "Failed" /\ io = <<>>
    /\ callNo = 2 /\ rx = AckPacket

\* ------------------------------------------------------------- dispatch
Variants == {"PingMessage", "ResponseMessage", "DisplayMessage"}

MarkerOf(v) ==
    IF v = "PingMessage" THEN PingMessage_marker
    ELSE IF v = "ResponseMessage" THEN ResponseMessage_marker
    ELSE DisplayMessage_marker

DecodeAs(v, b) ==
    IF v = "PingMessage" THEN PingMessage_from_bytes(b)
    ELSE IF v = "ResponseMessage" THEN ResponseMessage_from_bytes(b)
    ELSE DisplayMessage_from_bytes(b)

\* every order in which the three variants can be tried
TrialOrders == { o \in [1..3 -> Variants] : \A i, j \in 1..3 : o[i] = o[j] => i = j }

\* the variants whose marker begins buffer b
Matching(b) == { v \in Variants : StartsWith(b, MarkerOf(v)) }

\* the dispatch of inspect with the variants tried in order o
InspectTrying(o, b) ==
    LET hits == { i \in 1..3 : StartsWith(b, MarkerOf(o[i])) }
    IN IF hits = {} THEN Raise("ValueError")
       ELSE DecodeAs(o[CHOOSE i \in hits : \A j \in hits : i <= j], b)

\* C19: no marker begins another, so at most one variant matches a buffer and
\* inspect returns what that variant's decoder returns (ValueError when none
\* matches) in whichever order the variants are tried.
C19_DispatchOrderFree ==
    /\ \A v, w \in Variants : v # w => ~StartsWith(MarkerOf(v), MarkerOf(w))
    /\ (ops = <<"inspect">> /\ inputKind = "bytes") =>
          /\ Cardinality(Matching(input)) <= 1
          /\ \A o \in TrialOrders : InspectTrying(o, input) = value
          /\ (Matching(input) = {} => value = Raise("ValueError"))
          /\ value.err = "none" => Matching(input) = {value.val.kind}

\* 01 44 00 | 00 00 00 00 | 0D is a DisplayMessage, the variant tried last
C19_Witness ==
    /\ ops = <<"inspect">>
    /\ input = DisplayMessage_marker \o <<0, 0, 0, 0, 13>>
    /\ Matching(input) = {"DisplayMessage"}
    /\ value = Ok(DisplayMessage(<<Page(PageAnimate_NONE, 0, <<>>)>>))

====
